---- MODULE Spec2Model ----
(***************************************************************************)
(* Model of the `vect` crate: the Vector trait (src/src/vector.rs) and its *)
(* two implementations Vector2 (src/src/vector2.rs) and Vector3            *)
(* (src/src/vector3.rs).                                                   *)
(*                                                                         *)
(* The library is a set of pure functions over f64 components.  A scalar   *)
(* is modelled as an IEEE-754 value of one of three kinds: a finite value  *)
(* held as an exact reduced fraction n/d, an infinity (n = 1 or n = -1),   *)
(* or NaN.  The inputs are drawn from values on which binary64 arithmetic  *)
(* is exact (small integers and dyadic fractions, exact square roots), so  *)
(* the exact fraction is the value the compiled code computes.  Signed     *)
(* zero is not distinguished: no input is -0.0 and no operation modelled   *)
(* here divides by a computed zero whose sign would matter.                *)
(*                                                                         *)
(* The state is one call of the library: the operands a, b and t, the      *)
(* operation that was applied (op) and what it returned (res).             *)
(***************************************************************************)
EXTENDS Integers, FiniteSets, Sequences, TLC

VARIABLES op, a, b, t, res

vars == <<op, a, b, t, res>>

(***************************** bounds *************************************)
\* Vector2 inputs have integer components in -MaxCoord2..MaxCoord2.
MaxCoord2 == 2
\* Vector3 inputs have integer components in -MaxCoord3..MaxCoord3.
MaxCoord3 == 1
\* Scalar inputs (t, max_len, max_distance_delta) reach from -MaxT to MaxT.
MaxT == 2
\* Inputs that may be infinite or NaN have finite components in 0..MaxOrd.
MaxOrd == 1

(***************************** f64 ****************************************)
RECURSIVE GCD(_, _)
GCD(m, n) == IF n = 0 THEN m ELSE GCD(n, m % n)

Abs(n) == IF n < 0 THEN -n ELSE n

Sgn(n) == IF n < 0 THEN -1 ELSE IF n = 0 THEN 0 ELSE 1

\* The finite value n/d (d # 0), reduced, with the sign in the numerator.
Rat(n, d) ==
    LET g == GCD(Abs(n), Abs(d))
    IN  [k |-> "fin", n |-> (Sgn(d) * n) \div g, d |-> Abs(d) \div g]

Int2F(n) == [k |-> "fin", n |-> n, d |-> 1]

NaN == [k |-> "nan", n |-> 0, d |-> 1]
INFINITY == [k |-> "inf", n |-> 1, d |-> 1]
NEG_INFINITY == [k |-> "inf", n |-> -1, d |-> 1]

Zero == Int2F(0)
One == Int2F(1)

IsNaN(x) == x.k = "nan"
IsInf(x) == x.k = "inf"
IsFinite(x) == x.k = "fin"
IsZero(x) == x.k = "fin" /\ x.n = 0

\* unary minus
FNeg(x) == [x EXCEPT !.n = -x.n]

\* x + y
FAdd(x, y) ==
    IF IsNaN(x) \/ IsNaN(y) THEN NaN
    ELSE IF IsInf(x) THEN (IF IsInf(y) /\ y.n # x.n THEN NaN ELSE x)
    ELSE IF IsInf(y) THEN y
    ELSE Rat(x.n * y.d + y.n * x.d, x.d * y.d)

\* x - y
FSub(x, y) == FAdd(x, FNeg(y))

\* x * y
FMul(x, y) ==
    IF IsNaN(x) \/ IsNaN(y) THEN NaN
    ELSE IF IsInf(x) \/ IsInf(y)
         THEN (IF IsZero(x) \/ IsZero(y) THEN NaN
               ELSE IF Sgn(x.n) * Sgn(y.n) > 0 THEN INFINITY ELSE NEG_INFINITY)
    ELSE Rat(x.n * y.n, x.d * y.d)

\* x / y
FDiv(x, y) ==
    IF IsNaN(x) \/ IsNaN(y) THEN NaN
    ELSE IF IsInf(x)
         THEN (IF IsInf(y) THEN NaN
               ELSE IF Sgn(x.n) * (IF y.n < 0 THEN -1 ELSE 1) > 0
                    THEN INFINITY ELSE NEG_INFINITY)
    ELSE IF IsInf(y) THEN Zero
    ELSE IF y.n = 0
         THEN (IF x.n = 0 THEN NaN
               ELSE IF x.n > 0 THEN INFINITY ELSE NEG_INFINITY)
    ELSE Rat(x.n * y.d, x.d * y.n)

\* x.powi(2)
FPowi2(x) == FMul(x, x)

IsSquare(m) == \E r \in 0..m : r * r = m

ISqrt(m) == CHOOSE r \in 0..m : r * r = m

\* x.sqrt() is exact when numerator and denominator are perfect squares; the
\* inputs are chosen so that it is evaluated nowhere else.
HasExactSqrt(x) == ~IsFinite(x) \/ x.n < 0 \/ (IsSquare(x.n) /\ IsSquare(x.d))

\* x.sqrt()
FSqrt(x) ==
    IF IsNaN(x) THEN NaN
    ELSE IF IsInf(x) THEN (IF x.n > 0 THEN INFINITY ELSE NaN)
    ELSE IF x.n < 0 THEN NaN
    ELSE Rat(ISqrt(x.n), ISqrt(x.d))

RECURSIVE IsPow2(_)
IsPow2(m) == m = 1 \/ (m > 1 /\ m % 2 = 0 /\ IsPow2(m \div 2))

\* A finite value binary64 holds exactly: a small integer over a power of two.
IsDyadic(x) == IsFinite(x) /\ IsPow2(x.d)

\* f64::partial_cmp
FCmp(x, y) ==
    IF IsNaN(x) \/ IsNaN(y) THEN "None"
    ELSE IF x = y THEN "Equal"
    ELSE IF IsInf(x) THEN (IF x.n < 0 THEN "Less" ELSE "Greater")
    ELSE IF IsInf(y) THEN (IF y.n > 0 THEN "Less" ELSE "Greater")
    ELSE IF x.n * y.d < y.n * x.d THEN "Less" ELSE "Greater"

FEq(x, y) == FCmp(x, y) = "Equal"
FLt(x, y) == FCmp(x, y) = "Less"
FGt(x, y) == FCmp(x, y) = "Greater"
FLe(x, y) == FCmp(x, y) \in {"Less", "Equal"}
FGe(x, y) == FCmp(x, y) \in {"Greater", "Equal"}

\* x.acos() is exact for an argument outside [-1, 1] (NaN) and for 1.0 (0.0);
\* acos(0.0) and acos(-1.0) are roundings of pi/2 and pi, which no fraction
\* holds, and the inputs are chosen so that it is evaluated nowhere else.
HasExactAcos(x) ==
    ~IsFinite(x) \/ FCmp(x, One) \in {"Equal", "Greater"}
                 \/ FCmp(x, FNeg(One)) = "Less"

\* x.acos()
FAcos(x) ==
    CASE ~IsFinite(x) -> NaN
      [] IsFinite(x) /\ (FCmp(x, One) = "Greater" \/ FCmp(x, FNeg(One)) = "Less") -> NaN
      [] x = One -> Zero

\* x.sin(), for the angles FAcos yields
FSin(x) ==
    CASE ~IsFinite(x) -> NaN
      [] IsZero(x) -> Zero

(***************************** Vector2 ************************************)
Vector2_new(x, y) == [x |-> x, y |-> y]

Vector2_positive_infinity == Vector2_new(INFINITY, INFINITY)

Vector2_negative_infinity == Vector2_new(NEG_INFINITY, NEG_INFINITY)

Vector2_up == Vector2_new(Zero, One)

Vector2_add(self, other) ==
    Vector2_new(FAdd(self.x, other.x), FAdd(self.y, other.y))

\* Vector2_sub with the y line of add.
Vector2_sub_adds_y(self, other) ==
    Vector2_new(FSub(self.x, other.x), FAdd(self.y, other.y))

Vector2_sub(self, other) ==
    Vector2_new(FSub(self.x, other.x), FSub(self.y, other.y))

\* Vector2 * f64
Vector2_mul(self, rhs) ==
    Vector2_new(FMul(self.x, rhs), FMul(self.y, rhs))

\* f64 * Vector2
F64_mul_Vector2(self, rhs) ==
    Vector2_new(FMul(self, rhs.x), FMul(self, rhs.y))

\* Vector2 / f64
Vector2_div(self, other) ==
    Vector2_new(FDiv(self.x, other), FDiv(self.y, other))

\* f64 / Vector2
F64_div_Vector2(self, other) ==
    Vector2_new(FDiv(self, other.x), FDiv(self, other.y))

\* derived PartialEq
Vector2_eq(self, other) == FEq(self.x, other.x) /\ FEq(self.y, other.y)

\* derived PartialOrd: the fields in order, the first that is not Equal decides
Vector2_partial_cmp(self, other) ==
    LET cx == FCmp(self.x, other.x)
    IN  IF cx = "Equal" THEN FCmp(self.y, other.y) ELSE cx

Vector2_ge(self, other) ==
    Vector2_partial_cmp(self, other) \in {"Greater", "Equal"}

Vector2_le(self, other) ==
    Vector2_partial_cmp(self, other) \in {"Less", "Equal"}

Vector2_zero == Vector2_new(Zero, Zero)

Vector2_sqr_magnitude(self) == FAdd(FPowi2(self.x), FPowi2(self.y))

Vector2_magnitude(self) == FSqrt(Vector2_sqr_magnitude(self))

\* Vector2_distance without the square root.
Vector2_distance_no_sqrt(self, other) == Vector2_sqr_magnitude(Vector2_sub(self, other))

Vector2_distance(self, other) == Vector2_magnitude(Vector2_sub(self, other))

Vector2_clamp_magnitude(self, max_len) ==
    IF FGt(Vector2_magnitude(self), max_len)
    THEN Vector2_div(self, max_len)
    ELSE self

Vector2_dot(self, other) ==
    FAdd(FMul(self.x, other.x), FMul(self.y, other.y))

Vector2_scale(self, other) ==
    Vector2_new(FMul(self.x, other.x), FMul(self.y, other.y))

\* Vector2_lerp_unclamped with the two weights exchanged.
Vector2_lerp_unclamped_weights_swapped(self, other, tt) ==
    Vector2_add(F64_mul_Vector2(tt, self), F64_mul_Vector2(FSub(One, tt), other))

Vector2_lerp_unclamped(self, other, tt) ==
    Vector2_add(F64_mul_Vector2(FSub(One, tt), self), F64_mul_Vector2(tt, other))

Vector2_lerp(self, other, tt) ==
    IF FLe(tt, Zero) THEN self
    ELSE IF FGe(tt, One) THEN other
    ELSE Vector2_lerp_unclamped(self, other, tt)

\* Vector2_move_towards through lerp, which clamps the fraction.
Vector2_move_towards_clamped(self, other, max_distance_delta) ==
    LET distance == Vector2_distance(self, other)
        fraction == FDiv(max_distance_delta, distance)
    IN  Vector2_lerp(self, other, fraction)

Vector2_move_towards(self, other, max_distance_delta) ==
    LET distance == Vector2_distance(self, other)
        fraction == FDiv(max_distance_delta, distance)
    IN  Vector2_lerp_unclamped(self, other, fraction)

Vector2_reflect(self, normal) ==
    Vector2_add(
        F64_mul_Vector2(FMul(Int2F(-2), Vector2_dot(self, normal)), normal),
        self)

\* Vector2_max choosing by "not less" in place of "greater or equal".
Vector2_max_not_lt(self, other) ==
    IF Vector2_partial_cmp(self, other) # "Less" THEN self ELSE other

Vector2_max(self, other) == IF Vector2_ge(self, other) THEN self ELSE other

Vector2_min(self, other) == IF Vector2_le(self, other) THEN self ELSE other

\* Vector2::from(Vector3) dropping y in place of z.
Vector2_from_drops_y(vector) == Vector2_new(vector.x, vector.z)

\* Vector2::from(Vector3)
Vector2_from(vector) == Vector2_new(vector.x, vector.y)

(***************************** Vector3 ************************************)
Vector3_new(x, y, z) == [x |-> x, y |-> y, z |-> z]

Vector3_add(self, other) ==
    Vector3_new(FAdd(self.x, other.x), FAdd(self.y, other.y), FAdd(self.z, other.z))

Vector3_sub(self, other) ==
    Vector3_new(FSub(self.x, other.x), FSub(self.y, other.y), FSub(self.z, other.z))

\* Vector3 * f64
Vector3_mul(self, rhs) ==
    Vector3_new(FMul(self.x, rhs), FMul(self.y, rhs), FMul(self.z, rhs))

\* f64 * Vector3
F64_mul_Vector3(self, rhs) ==
    Vector3_new(FMul(self, rhs.x), FMul(self, rhs.y), FMul(self, rhs.z))

\* Vector3 / f64 that leaves z undivided.
Vector3_div_z_undivided(self, other) ==
    Vector3_new(FDiv(self.x, other), FDiv(self.y, other), self.z)

\* Vector3 / f64
Vector3_div(self, other) ==
    Vector3_new(FDiv(self.x, other), FDiv(self.y, other), FDiv(self.z, other))

\* f64 / Vector3
F64_div_Vector3(self, other) ==
    Vector3_new(FDiv(self, other.x), FDiv(self, other.y), FDiv(self, other.z))

\* derived PartialEq
Vector3_eq(self, other) ==
    FEq(self.x, other.x) /\ FEq(self.y, other.y) /\ FEq(self.z, other.z)

\* derived PartialOrd: the fields in order, the first that is not Equal decides
Vector3_partial_cmp(self, other) ==
    LET cx == FCmp(self.x, other.x)
        cy == FCmp(self.y, other.y)
    IN  IF cx # "Equal" THEN cx
        ELSE IF cy # "Equal" THEN cy
        ELSE FCmp(self.z, other.z)

Vector3_ge(self, other) ==
    Vector3_partial_cmp(self, other) \in {"Greater", "Equal"}

Vector3_le(self, other) ==
    Vector3_partial_cmp(self, other) \in {"Less", "Equal"}

Vector3_zero == Vector3_new(Zero, Zero, Zero)

Vector3_up == [Vector3_zero EXCEPT !.y = One]

\* Vector3_cross with the two products of y in the other order.
Vector3_cross_y_swapped(self, other) ==
    Vector3_new(
        FSub(FMul(self.y, other.z), FMul(self.z, other.y)),
        FSub(FMul(self.x, other.z), FMul(self.z, other.x)),
        FSub(FMul(self.x, other.y), FMul(self.y, other.x)))

Vector3_cross(self, other) ==
    Vector3_new(
        FSub(FMul(self.y, other.z), FMul(self.z, other.y)),
        FSub(FMul(self.z, other.x), FMul(self.x, other.z)),
        FSub(FMul(self.x, other.y), FMul(self.y, other.x)))

Vector3_sqr_magnitude(self) ==
    FAdd(FAdd(FPowi2(self.x), FPowi2(self.y)), FPowi2(self.z))

Vector3_magnitude(self) == FSqrt(Vector3_sqr_magnitude(self))

Vector3_distance(self, other) == Vector3_magnitude(Vector3_sub(self, other))

Vector3_clamp_magnitude(self, max_len) ==
    IF FGt(Vector3_magnitude(self), max_len)
    THEN Vector3_div(self, max_len)
    ELSE self

\* the z components are not part of the sum
Vector3_dot(self, other) ==
    FAdd(FMul(self.x, other.x), FMul(self.y, other.y))

Vector3_scale(self, other) ==
    Vector3_new(FMul(self.x, other.x), FMul(self.y, other.y), FMul(self.z, other.z))

Vector3_lerp_unclamped(self, other, tt) ==
    Vector3_add(F64_mul_Vector3(FSub(One, tt), self), F64_mul_Vector3(tt, other))

\* Vector3_lerp without the upper clamp.
Vector3_lerp_no_upper(self, other, tt) ==
    IF FLe(tt, Zero) THEN self
    ELSE Vector3_lerp_unclamped(self, other, tt)

Vector3_lerp(self, other, tt) ==
    IF FLe(tt, Zero) THEN self
    ELSE IF FGe(tt, One) THEN other
    ELSE Vector3_lerp_unclamped(self, other, tt)

Vector3_move_towards(self, other, max_distance_delta) ==
    LET distance == Vector3_distance(self, other)
        fraction == FDiv(max_distance_delta, distance)
    IN  Vector3_lerp_unclamped(self, other, fraction)

Vector3_reflect(self, normal) ==
    Vector3_add(
        F64_mul_Vector3(FMul(Int2F(-2), Vector3_dot(self, normal)), normal),
        self)

Vector3_slerp_unclamped(self, other, tt) ==
    LET omega == FAcos(Vector3_dot(self, other))
        lhs == Vector3_div(
                   F64_mul_Vector3(FSin(FMul(FSub(One, tt), omega)), self),
                   FSin(omega))
        rhs == Vector3_div(
                   F64_mul_Vector3(FSin(FMul(tt, omega)), other),
                   FSin(omega))
    IN  Vector3_add(lhs, rhs)

\* Vector3_slerp with the two end points exchanged.
Vector3_slerp_swapped(self, other, tt) ==
    IF FLe(tt, Zero) THEN other
    ELSE IF FGe(tt, One) THEN self
    ELSE Vector3_slerp_unclamped(self, other, tt)

Vector3_slerp(self, other, tt) ==
    IF FLe(tt, Zero) THEN self
    ELSE IF FGe(tt, One) THEN other
    ELSE Vector3_slerp_unclamped(self, other, tt)

Vector3_max(self, other) == IF Vector3_ge(self, other) THEN self ELSE other

Vector3_min(self, other) == IF Vector3_le(self, other) THEN self ELSE other

\* Vector3::from(Vector2)
Vector3_from(vector) == Vector3_new(vector.x, vector.y, Zero)

(***************************** calls **************************************)
\* The type of a value: a Vector3 has a z field, a Vector2 has none.
Is3(v) == "z" \in DOMAIN v

NoRes == [k |-> "none"]

ZeroLike(v) == IF Is3(v) THEN Vector3_zero ELSE Vector2_zero

\* The operands a call is made with.
Start(P, T) ==
    /\ op = "none"
    /\ res = NoRes
    /\ \E p \in P : a = p[1] /\ b = p[2]
    /\ t \in T

\* a.dot(&b)
Dot ==
    /\ op = "none"
    /\ op' = "dot"
    /\ res' = IF Is3(a) THEN Vector3_dot(a, b) ELSE Vector2_dot(a, b)
    /\ UNCHANGED <<a, b, t>>

\* a.reflect(b)
Reflect ==
    /\ op = "none"
    /\ op' = "reflect"
    /\ res' = IF Is3(a) THEN Vector3_reflect(a, b) ELSE Vector2_reflect(a, b)
    /\ UNCHANGED <<a, b, t>>

\* a.cross(b), of Vector3 alone
Cross ==
    /\ Is3(a)
    /\ op = "none"
    /\ op' = "cross"
    /\ res' = Vector3_cross(a, b)
    /\ UNCHANGED <<a, b, t>>

\* a.lerp(b, t)
Lerp ==
    /\ op = "none"
    /\ op' = "lerp"
    /\ res' = IF Is3(a) THEN Vector3_lerp(a, b, t) ELSE Vector2_lerp(a, b, t)
    /\ UNCHANGED <<a, b, t>>

\* a.lerp_unclamped(b, t)
LerpUnclamped ==
    /\ op = "none"
    /\ op' = "lerp_unclamped"
    /\ res' = IF Is3(a) THEN Vector3_lerp_unclamped(a, b, t)
                        ELSE Vector2_lerp_unclamped(a, b, t)
    /\ UNCHANGED <<a, b, t>>

\* a.distance(&b), modelled where sqrt is exact
Distance ==
    /\ op = "none"
    /\ HasExactSqrt(IF Is3(a) THEN Vector3_sqr_magnitude(Vector3_sub(a, b))
                              ELSE Vector2_sqr_magnitude(Vector2_sub(a, b)))
    /\ op' = "distance"
    /\ res' = IF Is3(a) THEN Vector3_distance(a, b) ELSE Vector2_distance(a, b)
    /\ UNCHANGED <<a, b, t>>

\* a.clamp_magnitude(t)
ClampMagnitude ==
    /\ op = "none"
    /\ op' = "clamp_magnitude"
    /\ res' = IF Is3(a) THEN Vector3_clamp_magnitude(a, t)
             ELSE Vector2_clamp_magnitude(a, t)
    /\ UNCHANGED <<a, b, t>>

\* a.max(b)
Max ==
    /\ op = "none"
    /\ op' = "max"
    /\ res' = IF Is3(a) THEN Vector3_max(a, b) ELSE Vector2_max(a, b)
    /\ UNCHANGED <<a, b, t>>

\* a.min(b)
Min ==
    /\ op = "none"
    /\ op' = "min"
    /\ res' = IF Is3(a) THEN Vector3_min(a, b) ELSE Vector2_min(a, b)
    /\ UNCHANGED <<a, b, t>>

\* a + b
Add ==
    /\ op = "none"
    /\ op' = "add"
    /\ res' = IF Is3(a) THEN Vector3_add(a, b) ELSE Vector2_add(a, b)
    /\ UNCHANGED <<a, b, t>>

\* a - b
Sub ==
    /\ op = "none"
    /\ op' = "sub"
    /\ res' = IF Is3(a) THEN Vector3_sub(a, b) ELSE Vector2_sub(a, b)
    /\ UNCHANGED <<a, b, t>>

\* a * t
Mul ==
    /\ op = "none"
    /\ op' = "mul"
    /\ res' = IF Is3(a) THEN Vector3_mul(a, t) ELSE Vector2_mul(a, t)
    /\ UNCHANGED <<a, b, t>>

\* a.move_towards(b, t)
MoveTowards ==
    /\ op = "none"
    /\ op' = "move_towards"
    /\ res' = IF Is3(a) THEN Vector3_move_towards(a, b, t)
             ELSE Vector2_move_towards(a, b, t)
    /\ UNCHANGED <<a, b, t>>

\* Vector3::from(a) of a Vector2, Vector2::from(a) of a Vector3
From ==
    /\ op = "none"
    /\ op' = "from"
    /\ res' = IF Is3(a) THEN Vector2_from(a) ELSE Vector3_from(a)
    /\ UNCHANGED <<a, b, t>>

\* The conversion back, of what From returned.
FromBack ==
    /\ op = "from"
    /\ op' = "from_from"
    /\ res' = IF Is3(res) THEN Vector2_from(res) ELSE Vector3_from(res)
    /\ UNCHANGED <<a, b, t>>

\* a.slerp(b, t), of Vector3 alone.  Between the end points the call reaches
\* slerp_unclamped, which is modelled where acos is exact.
Slerp ==
    /\ Is3(a)
    /\ (~FLe(t, Zero) /\ ~FGe(t, One)) => HasExactAcos(Vector3_dot(a, b))
    /\ op = "none"
    /\ op' = "slerp"
    /\ res' = Vector3_slerp(a, b, t)
    /\ UNCHANGED <<a, b, t>>

\* a.slerp_unclamped(b, t), of Vector3 alone, modelled where acos is exact.
SlerpUnclamped ==
    /\ Is3(a)
    /\ HasExactAcos(Vector3_dot(a, b))
    /\ op = "none"
    /\ op' = "slerp_unclamped"
    /\ res' = Vector3_slerp_unclamped(a, b, t)
    /\ UNCHANGED <<a, b, t>>

\* The calls below are made twice, on two Vector2 and on their widenings
\* Vector3::from; the result holds the outcome in either type.
Both(wide, flat) == [v3 |-> wide, v2 |-> flat]

\* a + b, in both types
PlaneAdd ==
    /\ op = "none"
    /\ op' = "plane_add"
    /\ res' = Both(Vector3_add(Vector3_from(a), Vector3_from(b)),
                 Vector2_add(a, b))
    /\ UNCHANGED <<a, b, t>>

\* a - b, in both types
PlaneSub ==
    /\ op = "none"
    /\ op' = "plane_sub"
    /\ res' = Both(Vector3_sub(Vector3_from(a), Vector3_from(b)),
                 Vector2_sub(a, b))
    /\ UNCHANGED <<a, b, t>>

\* a * t, in both types
PlaneMul ==
    /\ op = "none"
    /\ op' = "plane_mul"
    /\ res' = Both(Vector3_mul(Vector3_from(a), t),
                 Vector2_mul(a, t))
    /\ UNCHANGED <<a, b, t>>

\* t * a, in both types
PlaneMulLeft ==
    /\ op = "none"
    /\ op' = "plane_mul_left"
    /\ res' = Both(F64_mul_Vector3(t, Vector3_from(a)),
                 F64_mul_Vector2(t, a))
    /\ UNCHANGED <<a, b, t>>

\* a / t, modelled where the division is exact, in both types
PlaneDiv ==
    /\ op = "none"
    /\ \A c \in {a.x, a.y} : IsFinite(FDiv(c, t)) => IsDyadic(FDiv(c, t))
    /\ op' = "plane_div"
    /\ res' = Both(Vector3_div(Vector3_from(a), t),
                 Vector2_div(a, t))
    /\ UNCHANGED <<a, b, t>>

\* t / a, modelled where the division is exact, in both types
PlaneDivLeft ==
    /\ op = "none"
    /\ \A c \in {a.x, a.y} : IsFinite(FDiv(t, c)) => IsDyadic(FDiv(t, c))
    /\ op' = "plane_div_left"
    /\ res' = Both(F64_div_Vector3(t, Vector3_from(a)),
                 F64_div_Vector2(t, a))
    /\ UNCHANGED <<a, b, t>>

\* a.scale(b), in both types
PlaneScale ==
    /\ op = "none"
    /\ op' = "plane_scale"
    /\ res' = Both(Vector3_scale(Vector3_from(a), Vector3_from(b)),
                 Vector2_scale(a, b))
    /\ UNCHANGED <<a, b, t>>

\* a.lerp(b, t), in both types
PlaneLerp ==
    /\ op = "none"
    /\ op' = "plane_lerp"
    /\ res' = Both(Vector3_lerp(Vector3_from(a), Vector3_from(b), t),
                 Vector2_lerp(a, b, t))
    /\ UNCHANGED <<a, b, t>>

\* a.lerp_unclamped(b, t), in both types
PlaneLerpUnclamped ==
    /\ op = "none"
    /\ op' = "plane_lerp_unclamped"
    /\ res' = Both(Vector3_lerp_unclamped(Vector3_from(a), Vector3_from(b), t),
                 Vector2_lerp_unclamped(a, b, t))
    /\ UNCHANGED <<a, b, t>>

\* a.reflect(b), in both types
PlaneReflect ==
    /\ op = "none"
    /\ op' = "plane_reflect"
    /\ res' = Both(Vector3_reflect(Vector3_from(a), Vector3_from(b)),
                 Vector2_reflect(a, b))
    /\ UNCHANGED <<a, b, t>>

\* a.dot(&b), in both types
PlaneDot ==
    /\ op = "none"
    /\ op' = "plane_dot"
    /\ res' = Both(Vector3_dot(Vector3_from(a), Vector3_from(b)),
                 Vector2_dot(a, b))
    /\ UNCHANGED <<a, b, t>>

\* a.sqr_magnitude(), in both types
PlaneSqrMagnitude ==
    /\ op = "none"
    /\ op' = "plane_sqr_magnitude"
    /\ res' = Both(Vector3_sqr_magnitude(Vector3_from(a)),
                 Vector2_sqr_magnitude(a))
    /\ UNCHANGED <<a, b, t>>

\* a.distance(&b), modelled where sqrt is exact, in both types
PlaneDistance ==
    /\ op = "none"
    /\ HasExactSqrt(Vector2_sqr_magnitude(Vector2_sub(a, b)))
    /\ op' = "plane_distance"
    /\ res' = Both(Vector3_distance(Vector3_from(a), Vector3_from(b)),
                 Vector2_distance(a, b))
    /\ UNCHANGED <<a, b, t>>

(***************************** inputs *************************************)
Coords2 == {Int2F(i) : i \in -MaxCoord2..MaxCoord2}
Coords3 == {Int2F(i) : i \in -MaxCoord3..MaxCoord3}

Grid2 == {Vector2_new(x, y) : x \in Coords2, y \in Coords2}
Grid3 == {Vector3_new(x, y, z) : x \in Coords3, y \in Coords3, z \in Coords3}

\* The operands of the doc examples of cross and reflect.
CrossExampleA == Vector3_new(Int2F(3), Int2F(-3), Int2F(1))
CrossExampleB == Vector3_new(Int2F(4), Int2F(9), Int2F(2))
ReflectExample3 == Vector3_new(Int2F(1), Int2F(2), Zero)

FinitePairs ==
    (Grid2 \X Grid2) \cup (Grid3 \X Grid3)
        \cup {<<CrossExampleA, CrossExampleB>>, <<ReflectExample3, Vector3_up>>}

\* Scalars: the halves from -MaxT to MaxT, and the two infinities.
TFinite == {Rat(i, 2) : i \in (-2 * MaxT)..(2 * MaxT)}
TScalars == TFinite \cup {INFINITY, NEG_INFINITY}

\* Vectors whose magnitude is exact: those of the grids, and (3, 4).
ExactVecs ==
    {v \in Grid2 \cup {Vector2_new(Int2F(3), Int2F(4))} :
        HasExactSqrt(Vector2_sqr_magnitude(v))}
    \cup {v \in Grid3 : HasExactSqrt(Vector3_sqr_magnitude(v))}

\* Components that need not be finite.
OrdCoords == {Int2F(i) : i \in 0..MaxOrd} \cup {NaN, INFINITY, NEG_INFINITY}

OrdGrid2 == {Vector2_new(x, y) : x \in OrdCoords, y \in OrdCoords}
OrdGrid3 == {Vector3_new(x, y, z) : x \in OrdCoords, y \in OrdCoords, z \in OrdCoords}

OrdPairs == (OrdGrid2 \X OrdGrid2) \cup (OrdGrid3 \X OrdGrid3)

(***************************** specifications *****************************)
\* dot, reflect and cross of finite vectors
InitPairs == Start(FinitePairs, {Zero})
NextPairs == Dot \/ Reflect \/ Cross
SpecPairs == InitPairs /\ [][NextPairs]_vars

\* lerp of finite vectors, over every scalar
InitLerp == Start(FinitePairs, TScalars)
NextLerp == Lerp
SpecLerp == InitLerp /\ [][NextLerp]_vars

\* clamp_magnitude of a vector of exact magnitude, over every scalar that
\* divides its components exactly (the quotient is a dyadic fraction, or the
\* division is one by zero or by an infinity)
InitClamp ==
    /\ Start({<<v, ZeroLike(v)>> : v \in ExactVecs}, TScalars)
    /\ \A c \in {a.x, a.y} \cup (IF Is3(a) THEN {a.z} ELSE {}) :
           IsFinite(FDiv(c, t)) => IsDyadic(FDiv(c, t))
NextClamp == ClampMagnitude
SpecClamp == InitClamp /\ [][NextClamp]_vars

\* max and min of vectors whose components may be infinite or NaN
InitOrd == Start(OrdPairs, {Zero})
NextOrd == Max \/ Min
SpecOrd == InitOrd /\ [][NextOrd]_vars

\* v + zero(), v - v, v + v, v - zero() and v * t of vectors whose components
\* may be infinite or NaN
InitArith ==
    Start({<<v, v>> : v \in OrdGrid2 \cup OrdGrid3}
            \cup {<<v, ZeroLike(v)>> : v \in OrdGrid2 \cup OrdGrid3},
          {Int2F(i) : i \in 0..MaxT})
NextArith == Add \/ Sub \/ Mul
SpecArith == InitArith /\ [][NextArith]_vars

\* move_towards of finite vectors whose distance is exact, by a finite step for
\* which the fraction step / distance is exact (a dyadic fraction); a == b,
\* where the fraction is a division by zero, is part of it
InitMove ==
    /\ Start({p \in FinitePairs :
                 HasExactSqrt(IF Is3(p[1])
                              THEN Vector3_sqr_magnitude(Vector3_sub(p[1], p[2]))
                              ELSE Vector2_sqr_magnitude(Vector2_sub(p[1], p[2])))},
             TFinite)
    /\ a # b => IsDyadic(FDiv(t, IF Is3(a) THEN Vector3_distance(a, b)
                                           ELSE Vector2_distance(a, b)))
NextMove == MoveTowards
SpecMove == InitMove /\ [][NextMove]_vars

\* the conversions between Vector2 and Vector3, and back
InitConv == Start({<<v, v>> : v \in Grid2 \cup Grid3}, {Zero})
NextConv == From \/ FromBack
SpecConv == InitConv /\ [][NextConv]_vars

\* slerp and slerp_unclamped of finite Vector3, over every scalar
InitSlerp == Start(Grid3 \X Grid3, TScalars)
NextSlerp == Slerp \/ SlerpUnclamped
SpecSlerp == InitSlerp /\ [][NextSlerp]_vars

\* lerp_unclamped of finite vectors, over every scalar
InitUnclamped == Start(FinitePairs, TScalars)
NextUnclamped == LerpUnclamped
SpecUnclamped == InitUnclamped /\ [][NextUnclamped]_vars

\* dot and distance of finite vectors
InitSym == Start(FinitePairs, {Zero})
NextSym == Dot \/ Distance
SpecSym == InitSym /\ [][NextSym]_vars

\* the operations shared by the two types, on finite Vector2 and their
\* widenings, over every finite scalar
InitPlane == Start(Grid2 \X Grid2, TFinite)
NextPlane ==
    \/ PlaneAdd \/ PlaneSub \/ PlaneMul \/ PlaneMulLeft \/ PlaneDiv \/ PlaneDivLeft
    \/ PlaneScale
    \/ PlaneLerp \/ PlaneLerpUnclamped \/ PlaneReflect
    \/ PlaneDot \/ PlaneSqrMagnitude \/ PlaneDistance
SpecPlane == InitPlane /\ [][NextPlane]_vars

(***************************** claims *************************************)
\* The components of a vector, in order.
Comps(v) == IF Is3(v) THEN <<v.x, v.y, v.z>> ELSE <<v.x, v.y>>

\* The vector of the type of v with the components cs.
OfComps(v, cs) ==
    IF Is3(v) THEN Vector3_new(cs[1], cs[2], cs[3]) ELSE Vector2_new(cs[1], cs[2])

RECURSIVE SumSeq(_)
SumSeq(s) == IF Len(s) = 1 THEN s[1] ELSE FAdd(SumSeq(SubSeq(s, 1, Len(s) - 1)), s[Len(s)])

\* The sum of the products of all corresponding components.
FullDot(u, v) == SumSeq([i \in DOMAIN Comps(u) |-> FMul(Comps(u)[i], Comps(v)[i])])

\* C1: dot(a, b) is the sum of the products of all corresponding components,
\* two for Vector2 and three for Vector3.
C1_DotSumsAllComponents == op = "dot" => res = FullDot(a, b)

\* v - 2 d n, component by component, d the full sum of products of v and n.
FullReflect(v, n) ==
    OfComps(v, [i \in DOMAIN Comps(v) |->
        FSub(Comps(v)[i], FMul(FMul(Int2F(2), FullDot(v, n)), Comps(n)[i]))])

\* C2: reflect(v, n) is v - 2 d n component by component, d the full sum of the
\* component-wise products of v and n.
C2_ReflectFullDot == op = "reflect" => res = FullReflect(a, b)

(***************************** C3 *****************************************)
\* (1 - s) u + s v, component by component
Blend(u, v, s) ==
    OfComps(u, [i \in DOMAIN Comps(u) |->
        FAdd(FMul(FSub(One, s), Comps(u)[i]), FMul(s, Comps(v)[i]))])

\* s clamped to [0, 1]
Clamp01(s) == IF FLe(s, Zero) THEN Zero ELSE IF FGe(s, One) THEN One ELSE s

\* x lies between p and q, in either order
Between(x, p, q) == (FLe(p, x) /\ FLe(x, q)) \/ (FLe(q, x) /\ FLe(x, p))

\* w lies in the box spanned by u and v, so not outside the segment from u to v
InBox(w, u, v) ==
    \A i \in DOMAIN Comps(u) : Between(Comps(w)[i], Comps(u)[i], Comps(v)[i])

\* C3: lerp(a, b, t) is exactly a when t <= 0, exactly b when t >= 1 and
\* (1 - t) a + t b in between; for every t it is the blend for the effective
\* parameter t clamped to [0, 1], and it never leaves the segment from a to b.
C3_LerpClamps ==
    op = "lerp" =>
        /\ FLe(t, Zero) => res = a
        /\ FGe(t, One) => res = b
        /\ (FGt(t, Zero) /\ FLt(t, One)) => res = Blend(a, b, t)
        /\ FLe(Zero, Clamp01(t)) /\ FLe(Clamp01(t), One)
        /\ res = Blend(a, b, Clamp01(t))
        /\ InBox(res, a, b)

\* A t beyond 1 between two different vectors gives the target, not a point past it.
C3_Witness ==
    /\ op = "lerp" /\ Is3(a) /\ a # b
    /\ FGt(t, One) /\ res = b /\ Blend(a, b, t) # b

(***************************** C4 *****************************************)
\* The Euclidean norm over all components.
FullMagnitude(v) ==
    FSqrt(SumSeq([i \in DOMAIN Comps(v) |-> FMul(Comps(v)[i], Comps(v)[i])]))

\* C4: for max_len >= 0, clamp_magnitude(v, max_len) has a magnitude of at most
\* max_len: v itself when magnitude(v) <= max_len, and otherwise a vector of
\* magnitude max_len.
C4_ClampBoundsMagnitude ==
    (op = "clamp_magnitude" /\ FGe(t, Zero)) =>
        /\ FLe(FullMagnitude(res), t)
        /\ FLe(FullMagnitude(a), t) => res = a
        /\ FGt(FullMagnitude(a), t) => FullMagnitude(res) = t

(***************************** C5 *****************************************)
\* The ordering of two vectors: the first components that differ decide.
RECURSIVE LexCmp(_, _)
LexCmp(s, r) ==
    IF s = <<>> THEN "Equal"
    ELSE LET c == FCmp(Head(s), Head(r))
         IN  IF c = "Equal" THEN LexCmp(Tail(s), Tail(r)) ELSE c

Ordering(u, v) == LexCmp(Comps(u), Comps(v))

\* C5 as stated: max and min return one of the operands, and the first one
\* whenever neither strictly dominates: when they compare equal and when they
\* are incomparable.
C5_DefaultsToFirst ==
    op \in {"max", "min"} =>
        /\ res \in {a, b}
        /\ Ordering(a, b) \in {"Equal", "None"} => res = a

\* C5 amended: max and min return one of the operands, chosen by the ordering;
\* the first one when the operands compare equal, and the second one when they
\* are incomparable.
C5_MinMaxSelect ==
    /\ op = "max" =>
        /\ res \in {a, b}
        /\ Ordering(a, b) = "Greater" => res = a
        /\ Ordering(a, b) = "Less" => res = b
        /\ Ordering(a, b) = "Equal" => res = a
        /\ Ordering(a, b) = "None" => res = b
    /\ op = "min" =>
        /\ res \in {a, b}
        /\ Ordering(a, b) = "Less" => res = a
        /\ Ordering(a, b) = "Greater" => res = b
        /\ Ordering(a, b) = "Equal" => res = a
        /\ Ordering(a, b) = "None" => res = b

\* max of two incomparable vectors returns the second.
C5_Witness ==
    /\ op = "max" /\ ~Is3(a) /\ Ordering(a, b) = "None"
    /\ a # b /\ res = b

(***************************** C6 *****************************************)
\* a == b of the type of the operands
Eq(u, v) == IF Is3(u) THEN Vector3_eq(u, v) ELSE Vector2_eq(u, v)

AllFinite(v) == \A i \in DOMAIN Comps(v) : IsFinite(Comps(v)[i])
NoNaN(v) == \A i \in DOMAIN Comps(v) : ~IsNaN(Comps(v)[i])

\* C6 as stated: over every component value, the infinities included,
\* v + zero() == v, v - v == zero() and v * 1.0 == v.
C6_IdentitiesEverywhere ==
    /\ (op = "add" /\ b = ZeroLike(a)) => Eq(res, a)
    /\ (op = "sub" /\ b = a) => Eq(res, ZeroLike(a))
    /\ (op = "mul" /\ t = One) => Eq(res, a)

\* C6 amended: the three identities hold for every vector of finite components.
\* For an infinite component v - v is NaN there, so v - v != zero();
\* v + zero() == v and v * 1.0 == v hold exactly when no component is NaN.
C6_IdentitiesFinite ==
    /\ (op = "add" /\ b = ZeroLike(a)) => (Eq(res, a) <=> NoNaN(a))
    /\ (op = "sub" /\ b = a) =>
        /\ Eq(res, ZeroLike(a)) <=> AllFinite(a)
        /\ \A i \in DOMAIN Comps(a) : IsInf(Comps(a)[i]) => IsNaN(Comps(res)[i])
    /\ (op = "mul" /\ t = One) => (Eq(res, a) <=> NoNaN(a))

\* positive_infinity() - positive_infinity() is (NaN, NaN).
C6_Witness ==
    /\ op = "sub" /\ a = Vector2_positive_infinity /\ b = a
    /\ res = Vector2_new(NaN, NaN)

(***************************** C7 *****************************************)
\* C7: cross(a, b) is (a.y b.z - a.z b.y, a.z b.x - a.x b.z, a.x b.y - a.y b.x),
\* each component is the negation of that of cross(b, a), and cross(a, a) is
\* zero().
C7_Cross ==
    op = "cross" =>
        /\ res = Vector3_new(FSub(FMul(a.y, b.z), FMul(a.z, b.y)),
                             FSub(FMul(a.z, b.x), FMul(a.x, b.z)),
                             FSub(FMul(a.x, b.y), FMul(a.y, b.x)))
        /\ \A i \in 1..3 : Comps(res)[i] = FNeg(Comps(Vector3_cross(b, a))[i])
        /\ a = b => Eq(res, Vector3_zero)

\* The doc example: (3, -3, 1) x (4, 9, 2) = (-15, -2, 39).
C7_Witness ==
    /\ op = "cross" /\ a = CrossExampleA /\ b = CrossExampleB
    /\ res = Vector3_new(Int2F(-15), Int2F(-2), Int2F(39))

(***************************** C8 *****************************************)
\* u - v, component by component
Diff(u, v) == OfComps(u, [i \in DOMAIN Comps(u) |-> FSub(Comps(u)[i], Comps(v)[i])])

\* u + s (v - u), component by component
PointAlong(u, v, s) ==
    OfComps(u, [i \in DOMAIN Comps(u) |->
        FAdd(Comps(u)[i], FMul(s, FSub(Comps(v)[i], Comps(u)[i])))])

FAbs(x) == IF IsFinite(x) /\ x.n < 0 THEN FNeg(x) ELSE x

\* C8: for a # b, move_towards(a, b, delta) is lerp_unclamped(a, b, delta /
\* distance(a, b)), the point a + (delta / distance(a, b)) (b - a): it lies at
\* distance |delta| from a; a delta larger than distance(a, b) lands past b and
\* not on it; a negative delta lands on the side of a away from b.
C8_MoveTowards ==
    (op = "move_towards" /\ ~Eq(a, b)) =>
        LET d == FullMagnitude(Diff(a, b))
            f == FDiv(t, d)
        IN  /\ res = Blend(a, b, f)
            /\ res = PointAlong(a, b, f)
            /\ FullMagnitude(Diff(res, a)) = FAbs(t)
            /\ FGt(t, d) =>
                /\ ~Eq(res, b)
                /\ FGt(FullMagnitude(Diff(res, a)), d)
                /\ FGt(FullDot(Diff(res, b), Diff(b, a)), Zero)
            /\ FLt(t, Zero) => FLt(FullDot(Diff(res, a), Diff(b, a)), Zero)

\* A step longer than the distance to the target lands past the target.
C8_Witness ==
    /\ op = "move_towards" /\ ~Is3(a) /\ ~Eq(a, b)
    /\ FGt(t, FullMagnitude(Diff(a, b)))
    /\ ~Eq(res, b)
    /\ FullMagnitude(Diff(res, a)) = t

(***************************** C9 *****************************************)
IsScalar(x) == DOMAIN x = {"k", "n", "d"} /\ x.k \in {"fin", "inf", "nan"}

IsVector2(v) == DOMAIN v = {"x", "y"} /\ IsScalar(v.x) /\ IsScalar(v.y)

IsVector3(v) ==
    DOMAIN v = {"x", "y", "z"} /\ IsScalar(v.x) /\ IsScalar(v.y) /\ IsScalar(v.z)

\* C9: widening a Vector2 keeps x and y and sets z = 0, narrowing a Vector3
\* keeps x and y and drops z; Vector2 -> Vector3 -> Vector2 gives back the
\* Vector2; Vector3 -> Vector2 -> Vector3 keeps x and y and has z = 0, so it
\* equals the Vector3 exactly when that has z == 0.  Both give a vector for
\* every vector.
C9_Conversions ==
    /\ (op = "from" /\ ~Is3(a)) =>
        /\ IsVector3(res)
        /\ res = Vector3_new(a.x, a.y, Zero)
    /\ (op = "from" /\ Is3(a)) =>
        /\ IsVector2(res)
        /\ res = Vector2_new(a.x, a.y)
    /\ (op = "from_from" /\ ~Is3(a)) =>
        /\ IsVector2(res)
        /\ Vector2_eq(res, a)
    /\ (op = "from_from" /\ Is3(a)) =>
        /\ IsVector3(res)
        /\ res = Vector3_new(a.x, a.y, Zero)
        /\ Vector3_eq(res, a) <=> FEq(a.z, Zero)

\* A Vector3 off the z = 0 plane does not come back.
C9_Witness ==
    /\ op = "from_from" /\ Is3(a) /\ ~FEq(a.z, Zero)
    /\ ~Vector3_eq(res, a) /\ res.x = a.x /\ res.y = a.y /\ res.z = Zero

(***************************** C10 ****************************************)
AllNaN(v) == \A i \in DOMAIN Comps(v) : IsNaN(Comps(v)[i])

\* C10: slerp(a, b, t) is exactly a when t <= 0 and exactly b when t >= 1,
\* whatever a and b are (identical and antiparallel vectors included), and
\* slerp_unclamped(a, b, t) for 0 < t < 1.  slerp_unclamped does not clamp: where
\* the angle acos(dot(a, b)) is 0 or NaN it divides by sin of it and every
\* component is NaN, at t <= 0 and t >= 1 as in between, which is neither a nor b.
C10_SlerpClamps ==
    /\ op = "slerp" =>
        /\ FLe(t, Zero) => res = a
        /\ FGe(t, One) => res = b
        /\ (FGt(t, Zero) /\ FLt(t, One)) => res = Vector3_slerp_unclamped(a, b, t)
    /\ op = "slerp_unclamped" =>
        LET omega == FAcos(Vector3_dot(a, b))
        IN  (IsZero(omega) \/ IsNaN(omega)) =>
                /\ AllNaN(res)
                /\ FLe(t, Zero) => res # a
                /\ FGe(t, One) => res # b

\* slerp of a unit vector with itself at t = 0 is that vector, where
\* slerp_unclamped is not.
C10_Witness ==
    /\ op = "slerp" /\ a = Vector3_new(One, Zero, Zero) /\ b = a
    /\ t = Zero /\ res = a
    /\ AllNaN(Vector3_slerp_unclamped(a, b, t))

(***************************** C11 ****************************************)
\* the call a.lerp(b, t) on the operands of the state
LerpOf(u, v, s) == IF Is3(u) THEN Vector3_lerp(u, v, s) ELSE Vector2_lerp(u, v, s)

\* C11: for every scalar t, lerp_unclamped(a, b, t) is (1 - t) a + t b component
\* by component, with no clamping of t: for t < 0 or t > 1 and a # b it is
\* neither the end point lerp(a, b, t) returns nor equal to lerp(a, b, t).
C11_LerpUnclampedExtrapolates ==
    op = "lerp_unclamped" =>
        /\ res = Blend(a, b, t)
        /\ ((FLt(t, Zero) \/ FGt(t, One)) /\ ~Eq(a, b)) =>
            /\ ~Eq(res, LerpOf(a, b, t))
            /\ FLt(t, Zero) => ~Eq(res, a)
            /\ FGt(t, One) => ~Eq(res, b)

\* lerp_unclamped((0, 0), (1, 0), 2) is (2, 0), where lerp gives (1, 0).
C11_Witness ==
    /\ op = "lerp_unclamped"
    /\ a = Vector2_new(Zero, Zero) /\ b = Vector2_new(One, Zero) /\ t = Int2F(2)
    /\ res = Vector2_new(Int2F(2), Zero)
    /\ LerpOf(a, b, t) = b

(***************************** C12 ****************************************)
\* the calls u.dot(&v) and u.distance(&v)
DotOf(u, v) == IF Is3(u) THEN Vector3_dot(u, v) ELSE Vector2_dot(u, v)
DistanceOf(u, v) == IF Is3(u) THEN Vector3_distance(u, v) ELSE Vector2_distance(u, v)

\* C12: dot(a, b) == dot(b, a) and distance(a, b) == distance(b, a), where
\* distance(a, b) is the magnitude of a - b.
C12_DotDistanceSymmetric ==
    /\ op = "dot" => FEq(res, DotOf(b, a))
    /\ op = "distance" =>
        /\ FEq(res, DistanceOf(b, a))
        /\ res = FullMagnitude(Diff(a, b))

\* Two different Vector3 at distance 3 from each other, either way round.
C12_Witness ==
    /\ op = "distance" /\ Is3(a) /\ a # b
    /\ res = Int2F(3) /\ DistanceOf(b, a) = Int2F(3)

(***************************** C13 ****************************************)
\* the calls that return a vector, and those that return a scalar
PlaneVectorOps ==
    {"plane_add", "plane_sub", "plane_mul", "plane_mul_left", "plane_div",
     "plane_div_left", "plane_scale", "plane_lerp", "plane_lerp_unclamped", "plane_reflect"}
PlaneScalarOps == {"plane_dot", "plane_sqr_magnitude", "plane_distance"}

\* The Vector3 outcome lies on the z = 0 plane and narrows to the Vector2 outcome.
OnPlaneAgrees(r) == FEq(r.v3.z, Zero) /\ Vector2_eq(Vector2_from(r.v3), r.v2)

\* C13: add, sub, scalar multiply and divide, scale, lerp, lerp_unclamped and
\* reflect on Vector3::from(a), Vector3::from(b) give a Vector3 with z = 0 whose
\* narrowing equals the same operation on a, b; dot, sqr_magnitude and distance
\* return the same scalar in both types.
C13_PlaneAgrees ==
    /\ op \in PlaneVectorOps => OnPlaneAgrees(res)
    /\ op \in PlaneScalarOps => FEq(res.v3, res.v2)

\* C13, amended: as above, two divisions set apart.  Dividing by a scalar that
\* is zero gives z = 0 / 0, which is NaN, and for x and y the quotients the
\* Vector2 division gives, each infinite or NaN.  Dividing a scalar by the vector
\* gives z = t / 0, which is infinite or NaN, and for x and y the quotients the
\* Vector2 division gives.
C13_PlaneAgreesNonzeroDivisor ==
    /\ (op \in PlaneVectorOps \ {"plane_div", "plane_div_left"}) => OnPlaneAgrees(res)
    /\ (op = "plane_div" /\ ~IsZero(t)) => OnPlaneAgrees(res)
    /\ (op = "plane_div" /\ IsZero(t)) =>
        /\ IsNaN(res.v3.z)
        /\ Vector2_from(res.v3) = res.v2
        /\ ~IsFinite(res.v2.x) /\ ~IsFinite(res.v2.y)
    /\ op = "plane_div_left" =>
        /\ ~IsFinite(res.v3.z)
        /\ IsNaN(res.v3.z) <=> IsZero(t)
        /\ Vector2_from(res.v3) = res.v2
    /\ op \in PlaneScalarOps => FEq(res.v3, res.v2)

\* (2, -2) / 2 is (1, -1) as a Vector2 and (1, -1, 0) as a Vector3.
C13_Witness ==
    /\ op = "plane_div" /\ t = Int2F(2)
    /\ a = Vector2_new(Int2F(2), Int2F(-2))
    /\ res.v2 = Vector2_new(One, Int2F(-1))
    /\ res.v3 = Vector3_new(One, Int2F(-1), Zero)

====
